---------------------------- MODULE Spec2Model ----------------------------
(***************************************************************************)
(* Appointment scheduling of the Can Care front office: slot availability, *)
(* the pre-save conflict checks, the web_appointments / web_waitlist       *)
(* collections and the appointment status lifecycle, as implemented in     *)
(* src/src/Clerk/Dashboard/Dashboard.jsx, src/src/Chief/Dashboard.js and   *)
(* src/src/services/authService.js.                                        *)
(*                                                                         *)
(* Two specifications share the definitions:                               *)
(*   SpecFn  the slot and conflict computations applied to bounded inputs  *)
(*   Spec    two dashboards working on the shared store                    *)
(***************************************************************************)
EXTENDS Integers, Sequences, FiniteSets, TLC

VARIABLES
    fnAppts,    \* SpecFn: the appointment snapshot handed to the functions
    fnOut,      \* SpecFn: the last call and its result
    store,      \* web_appointments: the documents, oldest first
    nextId,     \* number of documents ever added to web_appointments
    waitlist,   \* web_waitlist: the entries, oldest first
    snap,       \* per client: the appointments state set by onSnapshot
    pc,         \* per client: position inside the running handler
    cur,        \* per client: arguments and locals of the running handler
    last,       \* per client: the last handler started (the n-th), how it ended
    role,       \* per client: which dashboard it runs ("clerk" or "chief")
    ops         \* number of handlers started so far

vars == <<fnAppts, fnOut, store, nextId, waitlist, snap, pc, cur, last, role, ops>>
fnVars == <<fnAppts, fnOut>>
sysVars == <<store, nextId, waitlist, snap, pc, cur, last, role, ops>>

---------------------------------------------------------------------------
(* JavaScript values.  A missing field reads as undefined; null is what    *)
(* `x || null` stores.  Both are kept apart because === tells them apart.  *)

Undefined == "<undefined>"
Null == "<null>"

\* x is truthy, for a string-valued field (undefined, null and '' are falsy)
Truthy(x) == x \notin {Undefined, Null, ""}

\* a || b on string-valued fields
OrElse(a, b) == IF Truthy(a) THEN a ELSE b

---------------------------------------------------------------------------
(* Time labels are character strings.  A label is modelled as the sequence *)
(* of its characters, a run of characters that holds neither white space   *)
(* nor one of the letters a, m, p (such as 09:30) being kept as one item.  *)

Upper(c) == CASE c = "a" -> "A" [] c = "m" -> "M" [] c = "p" -> "P" [] OTHER -> c

IsSpace(c) == c = " "

\* /(AM|PM)/i matches at position j
AmPmAt(s, j) ==
    /\ j >= 1
    /\ j + 1 <= Len(s)
    /\ Upper(s[j]) \in {"A", "P"}
    /\ Upper(s[j + 1]) = "M"

\* s.includes('AM') || s.includes('PM'): case-sensitive
IncludesAmPm(s) ==
    \E j \in 1..Len(s) : j + 1 <= Len(s) /\ s[j] \in {"A", "P"} /\ s[j + 1] = "M"

Min(S) == CHOOSE x \in S : \A y \in S : x <= y
Max(S) == CHOOSE x \in S : \A y \in S : x >= y

\* s.replace(/\s*(AM|PM)/i, ''): the leftmost match only (no g flag); the
\* match starts at the white space run that leads to the first AM / PM
ReplaceAmPm(s) ==
    LET hits == {j \in 1..Len(s) : AmPmAt(s, j)}
    IN  IF hits = {} THEN s
        ELSE LET j == Min(hits)
                 i == Min({k \in 1..j : \A l \in k..(j - 1) : IsSpace(s[l])})
             IN  SubSeq(s, 1, i - 1) \o SubSeq(s, j + 2, Len(s))

\* a faulty variant of trim: at most one white space character is dropped
\* at each end
TrimOnce(s) ==
    LET a == IF Len(s) > 0 /\ IsSpace(s[1]) THEN 2 ELSE 1
        b == IF Len(s) > 0 /\ IsSpace(s[Len(s)]) THEN Len(s) - 1 ELSE Len(s)
    IN  SubSeq(s, a, b)

\* s.trim()
Trim(s) ==
    LET keep == {k \in 1..Len(s) : ~IsSpace(s[k])}
    IN  IF keep = {} THEN <<>> ELSE SubSeq(s, Min(keep), Max(keep))

\* s.replace(/\s*(AM|PM)/i, '').trim()
Normalize(s) == Trim(ReplaceAmPm(s))

\* xs.map(f) for the normalisation
MapNormalize(xs) == [k \in 1..Len(xs) |-> Normalize(xs[k])]

\* Array.find over positions: the first of the hits, 0 when there is none
FirstIndex(hits) == IF hits = {} THEN 0 ELSE Min(hits)

Range(xs) == {xs[k] : k \in 1..Len(xs)}

T(hhmm) == <<hhmm>>
AM(hhmm) == <<hhmm, " ", "A", "M">>
PM(hhmm) == <<hhmm, " ", "P", "M">>

---------------------------------------------------------------------------
(* Calendar dates.  A date string is kept as a string; Date parsing is the *)
(* table DateParts (a TLA+ string cannot be taken apart), the weekday is   *)
(* computed from the parsed year, month and day.                           *)

DateParts(s) ==
    CASE s = "2025-01-05" -> <<2025, 1, 5>>
      [] s = "2025-01-06" -> <<2025, 1, 6>>
      [] s = "2025-01-07" -> <<2025, 1, 7>>
      [] s = "2025-01-08" -> <<2025, 1, 8>>
      [] s = "2025-01-09" -> <<2025, 1, 9>>
      [] s = "2025-01-10" -> <<2025, 1, 10>>
      [] s = "2025-01-11" -> <<2025, 1, 11>>
      [] OTHER -> <<>>

\* !isNaN(new Date(s).getTime())
IsValidDate(s) == DateParts(s) # <<>>

\* days from 1970-01-01 to the civil date y-m-d
DaysFromCivil(y, m, d) ==
    LET yy == IF m <= 2 THEN y - 1 ELSE y
        era == yy \div 400
        yoe == yy - era * 400
        mp == (m + 9) % 12
        doy == (153 * mp + 2) \div 5 + d - 1
        doe == yoe * 365 + yoe \div 4 - yoe \div 100 + doy
    IN  era * 146097 + doe - 719468

\* Date.prototype.getDay() of the instant `days` days after the epoch's
\* local midnight: 0 is Sunday (1970-01-01 was a Thursday)
DayOfWeek(days) == (days + 4) % 7

dayNames == <<"sunday", "monday", "tuesday", "wednesday", "thursday", "friday", "saturday">>

\* new Date(s).getDay(): a date-only string is read as midnight UTC, and
\* getDay() answers in local time; west of Greenwich that instant still
\* belongs to the previous local day
UtcParsedDay(s, tz) ==
    LET p == DateParts(s)
        days == DaysFromCivil(p[1], p[2], p[3])
    IN  DayOfWeek(IF tz < 0 THEN days - 1 ELSE days)

\* new Date(s + 'T00:00:00').getDay(): read as local midnight
LocalParsedDay(s) ==
    LET p == DateParts(s)
    IN  DayOfWeek(DaysFromCivil(p[1], p[2], p[3]))

---------------------------------------------------------------------------
(* Doctors: the documents of the doctors collection the dashboards hold.   *)

\* one weekday entry of a workSchedule; present = FALSE is a missing key
Day(enabled, slots) == [present |-> TRUE, enabled |-> enabled, slots |-> slots]
NoDay == [present |-> FALSE, enabled |-> FALSE, slots |-> <<>>]
NoSchedule == [d \in 1..7 |-> NoDay]

DrSara == "Dr. Sara Haddad"
DrOmar == "Dr. Omar Khaled"
DrLina == "Dr. Lina Yousef"
DrNoor == "Dr. Noor Saleh"

Doctors == <<
    [name |-> DrSara, id |-> "d1", uid |-> "u1", department |-> "Cardiology",
     hasWorkSchedule |-> TRUE,
     workSchedule |-> <<
        Day(TRUE, <<T("10:00"), T("10:30")>>),                   \* sunday
        Day(TRUE, <<T("09:00"), T("09:30"), T("10:00")>>),       \* monday
        Day(FALSE, <<T("11:00"), T("11:30")>>),                  \* tuesday
        Day(TRUE, <<>>),                                         \* wednesday
        Day(TRUE, <<T("09:00"), AM("09:00"), T("09:30")>>),      \* thursday
        NoDay,                                                   \* friday
        Day(TRUE, <<PM("02:00"), T("15:00")>>) >>],              \* saturday
    [name |-> DrOmar, id |-> "d2", uid |-> Undefined, department |-> Undefined,
     hasWorkSchedule |-> FALSE, workSchedule |-> NoSchedule],
    [name |-> DrNoor, id |-> "d3", uid |-> "u3", department |-> "",
     hasWorkSchedule |-> FALSE, workSchedule |-> NoSchedule] >>

\* doctorSlots[docName] ?? <<>>
doctorSlots(docName) ==
    CASE docName = DrOmar -> <<AM("09:00"), AM("10:00"), AM("11:00"), PM("02:00")>>
      [] docName = DrLina -> <<AM("10:00"), AM("11:00"), PM("01:00"), PM("03:00")>>
      [] OTHER -> <<>>

defaultSlots ==
    <<T("09:00"), T("09:30"), T("10:00"), T("10:30"), T("11:00"), T("11:30"),
      T("12:00"), T("12:30"), T("13:00"), T("13:30"), T("14:00"), T("14:30"),
      T("15:00"), T("15:30"), T("16:00"), T("16:30"), T("17:00")>>

\* doctors.find(d => d.name === docName), as an index (0: undefined)
FindDoctorByName(docName) ==
    FirstIndex({k \in 1..Len(Doctors) : Doctors[k].name = docName})

\* doctors.find(d => d.name === name || d.id === id || d.uid === id)
FindDoctor(name, id) ==
    FirstIndex({k \in 1..Len(Doctors) :
                   \/ Doctors[k].name = name
                   \/ Doctors[k].id = id
                   \/ Doctors[k].uid = id})

\* doctor?.field
DoctorField(i, f) == IF i = 0 THEN Undefined ELSE Doctors[i][f]

\* daySchedule && daySchedule.enabled && daySchedule.slots && slots.length > 0
DayUsable(ds) == ds.present /\ ds.enabled /\ Len(ds.slots) > 0

\* the slots of the doctor's workSchedule for weekday number wd (0..6)
ScheduleSlots(i, wd) ==
    IF i # 0 /\ Doctors[i].hasWorkSchedule /\ DayUsable(Doctors[i].workSchedule[wd + 1])
    THEN Doctors[i].workSchedule[wd + 1].slots
    ELSE <<>>

\* "Fallback 1" and "Fallback 2" of the Clerk dashboard and its modal
ClerkFallback(base, docName) ==
    LET fb == doctorSlots(docName)
        b1 == IF Len(base) = 0
              THEN (IF Len(fb) > 0 /\ IncludesAmPm(fb[1]) THEN MapNormalize(fb) ELSE fb)
              ELSE base
    IN  IF Len(b1) = 0 THEN defaultSlots ELSE b1

---------------------------------------------------------------------------
(* Appointments as the dashboards see them: the document's fields plus its *)
(* id.  Documents written by createWebAppointment carry doctorName and     *)
(* doctorId; the older shape carries doctor (a name) and no doctorId.      *)
(* A form object has the same fields.  Ids are numbers: 0 stands for the   *)
(* "A-xxxx" id genId("A") gives a new form, -1 for the Chief form's ''.    *)

TempId == 0
EmptyId == -1

\* ap.id && !ap.id.startsWith("A-")
IsStoredId(id) == id # EmptyId /\ id # TempId

\* a faulty variant of the status test: only the capitalised spelling frees
NotCancelledUpperOnly(status) == status # "Cancelled"

\* a.status !== 'cancelled' && a.status !== 'Cancelled'
NotCancelledEitherCase(status) == status # "cancelled" /\ status # "Cancelled"

\* const aDoctor = a.doctor || a.doctorName; the matchesDoctor test
MatchesDoctor(a, docName, i) ==
    \/ OrElse(a.doctor, a.doctorName) = docName
    \/ a.doctorId = DoctorField(i, "id")
    \/ a.doctorId = DoctorField(i, "uid")

\* the taken labels: filter, map(normalize), filter(Boolean); kept is the
\* set of appointments left by the caller's exclusion of the one being edited
TakenTimes(kept, docName, i, dateStr) ==
    {Normalize(a.time) :
        a \in {b \in kept :
                  /\ MatchesDoctor(b, docName, i)
                  /\ b.date = dateStr
                  /\ NotCancelledEitherCase(b.status)}} \ {<<>>}

\* normalizedBase.filter(s => !taken.includes(s))
FilterTaken(base, taken) ==
    LET Free(s) == s \notin taken
    IN  SelectSeq(MapNormalize(base), Free)

\* Clerk dashboard, availableSlots with no date: the first usable weekday of
\* the workSchedule, else doctorSlots[docName] ?? defaultSlots, as stored
ClerkNoDateSlots(docName) ==
    LET i == FindDoctorByName(docName)
        usable == IF i # 0 /\ Doctors[i].hasWorkSchedule
                  THEN {wd \in 0..6 : DayUsable(Doctors[i].workSchedule[wd + 1])}
                  ELSE {}
    IN  IF usable # {} THEN Doctors[i].workSchedule[Min(usable) + 1].slots
        ELSE IF Len(doctorSlots(docName)) > 0 THEN doctorSlots(docName)
             ELSE defaultSlots

\* Clerk dashboard, availableSlots with a date: the candidate list (base)
ClerkBase(docName, dateStr, tz) ==
    LET i == FindDoctorByName(docName)
        base == IF IsValidDate(dateStr)
                THEN ScheduleSlots(i, UtcParsedDay(dateStr, tz))
                ELSE <<>>
    IN  ClerkFallback(base, docName)

\* Clerk dashboard: availableSlots(docName, dateStr)
availableSlots(docName, dateStr, appts, tz) ==
    IF ~Truthy(dateStr) THEN ClerkNoDateSlots(docName)
    ELSE LET i == FindDoctorByName(docName)
         IN  FilterTaken(ClerkBase(docName, dateStr, tz),
                         TakenTimes(Range(appts), docName, i, dateStr))

\* Clerk AppointmentModal: the candidate list of `slots`
ModalBase(form) ==
    LET i == FindDoctor(form.doctor, form.doctor)
        base == IF IsValidDate(form.date)
                THEN ScheduleSlots(i, LocalParsedDay(form.date))
                ELSE <<>>
    IN  ClerkFallback(base, form.doctor)

\* a faulty variant of slots: the appointment being edited counts as taken
slotsKeepAll(form, appts) ==
    IF ~Truthy(form.doctor) \/ ~Truthy(form.date) THEN <<>>
    ELSE LET i == FindDoctor(form.doctor, form.doctor)
         IN  FilterTaken(ModalBase(form),
                         TakenTimes(Range(appts), form.doctor, i, form.date))

\* Clerk AppointmentModal: slots
slots(form, appts) ==
    IF ~Truthy(form.doctor) \/ ~Truthy(form.date) THEN <<>>
    ELSE LET i == FindDoctor(form.doctor, form.doctor)
             kept == {a \in Range(appts) : a.id # form.id}
         IN  FilterTaken(ModalBase(form),
                         TakenTimes(kept, form.doctor, i, form.date))

\* Chief AppointmentModal: the candidate list of availableSlots
ChiefBase(docName, dateStr) ==
    LET i == FindDoctorByName(docName)
        base == IF Truthy(dateStr) /\ IsValidDate(dateStr)
                THEN ScheduleSlots(i, LocalParsedDay(dateStr))
                ELSE <<>>
    IN  IF Len(base) = 0 THEN defaultSlots ELSE base

\* Chief AppointmentModal: availableSlots(docName, dateStr), safeForm.id = formId
chiefAvailableSlots(docName, dateStr, appts, formId) ==
    LET i == FindDoctorByName(docName)
        kept == {a \in Range(appts) : IF formId # EmptyId THEN a.id # formId ELSE TRUE}
    IN  FilterTaken(ChiefBase(docName, dateStr),
                    TakenTimes(kept, docName, i, dateStr))

\* Chief AppointmentModal: slots
chiefSlots(form, appts) ==
    IF ~Truthy(form.doctor) \/ ~Truthy(form.date) THEN <<>>
    ELSE chiefAvailableSlots(form.doctor, form.date, appts, form.id)

\* doctors.find(d => d.name === docName)?.department ?? "Unknown"
getDeptByDoctorName(docName) ==
    LET d == DoctorField(FindDoctorByName(docName), "department")
    IN  IF d \in {Undefined, Null} THEN "Unknown" ELSE d

\* Clerk dashboard, updateStatus: the entry handed to createWebWaitlistEntry
\* when the appointment ap is cancelled and the offer is accepted
cancelEntry(ap) ==
    [patient |-> OrElse(ap.patient, ap.patientName),
     department |-> getDeptByDoctorName(OrElse(ap.doctor, ap.doctorName)),
     preferredDate |-> ap.date,
     notes |-> [doctor |-> OrElse(ap.doctor, ap.doctorName), time |-> ap.time]]

\* Clerk dashboard, saveAppointment: the client-side clash test
clash(ap, appts) ==
    \E a \in Range(appts) :
        /\ a.id # ap.id
        /\ (a.doctor = ap.doctor \/ a.doctorId = ap.doctorId \/ a.doctorName = ap.doctor)
        /\ a.date = ap.date
        /\ a.time = ap.time
        /\ a.status # "Cancelled"

\* the documents a Firestore equality query returns: a missing field never
\* matches (docs: a set of appointments)
QueryScheduled(docs, doctorId, date, time) ==
    {a \in docs : /\ a.doctorId # Undefined /\ a.doctorId = doctorId
                  /\ a.date = date
                  /\ a.time = time
                  /\ a.status = "scheduled"}

\* authService.js, checkAppointmentConflict; excludeId = EmptyId is null
checkAppointmentConflict(docs, doctorId, date, time, excludeId) ==
    LET found == QueryScheduled(docs, doctorId, date, time)
    IN  IF excludeId # EmptyId
        THEN \E a \in found : a.id # excludeId
        ELSE found # {}

---------------------------------------------------------------------------
(* SpecFn: the computations applied to bounded inputs.  The snapshot is a  *)
(* choice of at most MaxFnAppts documents from a pool holding the shapes   *)
(* the dashboards meet; each behaviour makes one call and records it.      *)

MaxFnAppts == 2

Monday == "2025-01-06"
Thursday == "2025-01-09"

Appt(id, doctor, doctorName, doctorId, date, time, status) ==
    [id |-> id, doctor |-> doctor, doctorName |-> doctorName, doctorId |-> doctorId,
     patient |-> Undefined, patientName |-> "Huda", date |-> date, time |-> time,
     status |-> status, updatedBy |-> Undefined]

SamplePool == <<
    Appt(1, Undefined, DrSara, "u1", Monday, T("09:30"), "Scheduled"),
    Appt(2, Undefined, DrSara, "u1", Monday, T("09:00"), "Cancelled"),
    Appt(3, Undefined, DrSara, "u1", Monday, AM("10:00"), "scheduled"),
    Appt(4, Undefined, DrSara, "u1", Monday, T("09:30"), "cancelled"),
    Appt(5, DrLina, Undefined, Undefined, Monday, T("09:00"), "Scheduled"),
    Appt(6, Undefined, DrOmar, "d2", Monday, T("10:00"), "Completed"),
    Appt(7, Undefined, DrSara, "u1", Thursday, T("09:00"), "scheduled"),
    Appt(8, Undefined, "Dr. Ghost", Null, Monday, T("09:30"), "Scheduled"),
    Appt(9, Undefined, DrNoor, "u3", Monday, T("10:00"), "scheduled") >>

\* the pool's documents numbered by ids, in pool order
PoolSeq(ids) ==
    LET Chosen(a) == a.id \in ids
    IN  SelectSeq(SamplePool, Chosen)

FnSnapshots ==
    {PoolSeq(ids) : ids \in {S \in SUBSET (1..Len(SamplePool)) : Cardinality(S) <= MaxFnAppts}}

FnDoctorNames == {DrSara, DrOmar, DrNoor, DrLina, ""}
FnDates == {"", "not-a-date", "2025-01-05", Monday, "2025-01-07", Thursday}
FnTimes == {T("09:00"), T("09:30"), AM("09:30"), T("10:00")}
FnDoctorIds == {"d1", "u1", "d2", Null, Undefined}
FnZones == {-1, 0, 1}

IdsOf(appts) == {a.id : a \in Range(appts)}

\* the form objects handed to the modal computations and to saveAppointment
FnForms(appts) ==
    {Appt(id, doctor, Undefined, doctorId, date, time, "Scheduled") :
        id \in IdsOf(appts) \cup {TempId}, doctor \in FnDoctorNames,
        doctorId \in FnDoctorIds, date \in FnDates \ {"not-a-date"}, time \in FnTimes}

\* the time labels the computations normalise: an hour and minute, then
\* nothing or an AM / PM marker in either letter case, with or without
\* white space before the marker and around the label; '' is a missing time
FnLabels ==
    {lead \o <<hhmm>> \o gap \o marker \o trail :
        lead \in {<<>>, <<" ">>, <<" ", " ">>},
        hhmm \in {"09:30", "14:00"},
        gap \in {<<>>, <<" ">>, <<" ", " ">>},
        marker \in {<<>>, <<"A", "M">>, <<"P", "M">>, <<"a", "m">>, <<"p", "m">>, <<"P", "m">>},
        trail \in {<<>>, <<" ">>, <<" ", " ">>}}
    \cup {<<>>, <<" ">>}

NoCall == [op |-> "none"]

\* SpecFn runs no dashboard: the store and the clients stay empty
SysInit ==
    /\ store = <<>>
    /\ nextId = 0
    /\ waitlist = <<>>
    /\ snap = <<>>
    /\ pc = <<>>
    /\ cur = <<>>
    /\ last = <<>>
    /\ role = <<>>
    /\ ops = 0

FnInit ==
    /\ fnAppts \in FnSnapshots
    /\ fnOut = NoCall
    /\ SysInit

CallAvailableSlots ==
    /\ fnOut = NoCall
    /\ \E docName \in FnDoctorNames, dateStr \in FnDates, tz \in FnZones :
          fnOut' = [op |-> "availableSlots", docName |-> docName, dateStr |-> dateStr,
                    tz |-> tz, result |-> availableSlots(docName, dateStr, fnAppts, tz)]
    /\ UNCHANGED <<fnAppts, sysVars>>

CallSlots ==
    /\ fnOut = NoCall
    /\ \E form \in FnForms(fnAppts) :
          fnOut' = [op |-> "slots", form |-> form, result |-> slots(form, fnAppts)]
    /\ UNCHANGED <<fnAppts, sysVars>>

CallChiefSlots ==
    /\ fnOut = NoCall
    /\ \E form \in FnForms(fnAppts) :
          fnOut' = [op |-> "chiefSlots", form |-> form, result |-> chiefSlots(form, fnAppts)]
    /\ UNCHANGED <<fnAppts, sysVars>>

CallClash ==
    /\ fnOut = NoCall
    /\ \E ap \in FnForms(fnAppts) :
          fnOut' = [op |-> "clash", ap |-> ap, result |-> clash(ap, fnAppts)]
    /\ UNCHANGED <<fnAppts, sysVars>>

CallCheckConflict ==
    /\ fnOut = NoCall
    /\ \E doctorId \in FnDoctorIds \ {Undefined}, date \in {Monday, Thursday},
          time \in FnTimes, excludeId \in IdsOf(fnAppts) \cup {EmptyId} :
          fnOut' = [op |-> "checkAppointmentConflict", doctorId |-> doctorId,
                    date |-> date, time |-> time, excludeId |-> excludeId,
                    result |-> checkAppointmentConflict(Range(fnAppts), doctorId,
                                                        date, time, excludeId)]
    /\ UNCHANGED <<fnAppts, sysVars>>

\* the normalisation of one label, as map(...) applies it to each element
CallNormalize ==
    /\ fnOut = NoCall
    /\ \E label \in FnLabels :
          fnOut' = [op |-> "normalize", label |-> label, result |-> Normalize(label)]
    /\ UNCHANGED <<fnAppts, sysVars>>

\* the waitlist entry built for a listed appointment that is cancelled
CallCancelEntry ==
    /\ fnOut = NoCall
    /\ \E ap \in Range(fnAppts) :
          fnOut' = [op |-> "cancelEntry", ap |-> ap, result |-> cancelEntry(ap)]
    /\ UNCHANGED <<fnAppts, sysVars>>

---------------------------------------------------------------------------
(* Spec: the ledger.  The store is the web_appointments collection; every  *)
(* client is a dashboard in a browser that holds the last snapshot it was  *)
(* sent and runs its handlers on that snapshot.  A save is two steps, the  *)
(* check (client test, then the store's query) and the write, and steps of *)
(* different clients interleave.                                           *)

Clients == {"c1", "c2"}

\* handlers started in one behaviour
MaxOps == 2

\* what the operators choose in the forms
ReqDoctors == {DrSara, DrOmar}
ReqTimes == {T("09:30"), T("10:00")}
\* the doctorId a new form is opened with: doctors[0] ("+ Add") or the
\* doctor of the quick slot; the doctor dropdown does not change it
NewFormDoctorIds == {"u1", "d2"}

\* an appointment booked before the dashboards were opened
Seed == Appt(1, Undefined, DrSara, "u1", Monday, T("09:30"), "scheduled")

NoCur == [kind |-> "none"]

Init ==
    /\ fnAppts = <<>>
    /\ fnOut = NoCall
    /\ store = <<Seed>>
    /\ nextId = 1
    /\ waitlist = <<>>
    /\ \E r \in {"clerk", "chief"} :
          role = [c \in Clients |-> IF c = "c1" THEN "clerk" ELSE r]
    /\ snap = [c \in Clients |-> <<>>]
    /\ pc = [c \in Clients |-> "idle"]
    /\ cur = [c \in Clients |-> NoCur]
    /\ last = [c \in Clients |-> [op |-> "none", n |-> 0, out |-> "none"]]
    /\ ops = 0

\* a collection without the document `id`
Without(appts, id) ==
    LET Other(a) == a.id # id
    IN  SelectSeq(appts, Other)

HasId(docs, id) == \E a \in Range(docs) : a.id = id
DocById(docs, id) == CHOOSE a \in Range(docs) : a.id = id

\* onSnapshot: the listener hands the client the current collection
Refresh(c) ==
    /\ snap[c] # store
    /\ snap' = [snap EXCEPT ![c] = store]
    /\ UNCHANGED <<fnVars, store, nextId, waitlist, pc, cur, last, role, ops>>

\* the forms the Clerk dashboard can hold when Save is clicked: a new one
\* (id "A-...") or the copy of a listed appointment opened by Edit; the time
\* is one picked from the list shown when it was picked, or the one the
\* form was opened with
ClerkForms(appts) ==
    {[Appt(TempId, doctor, Undefined, doctorId, Monday, time, "Scheduled")
        EXCEPT !.patient = "Huda", !.patientName = Undefined] :
        doctor \in ReqDoctors, doctorId \in NewFormDoctorIds, time \in ReqTimes}
    \cup
    {[a EXCEPT !.patient = "Huda", !.doctor = doctor, !.time = time, !.status = status] :
        a \in Range(appts), doctor \in ReqDoctors, time \in ReqTimes,
        status \in {"Scheduled", "Cancelled"}}

\* the Chief dashboard opens the form by Edit only; choosing a doctor or a
\* patient sets both spellings of the field
ChiefForms(appts) ==
    {[a EXCEPT !.patient = "Huda", !.patientName = "Huda", !.doctor = doctor,
               !.doctorName = doctor, !.time = time, !.status = status] :
        a \in Range(appts), doctor \in ReqDoctors, time \in ReqTimes,
        status \in {"scheduled", "cancelled"}}

\* a faulty variant of the validation: the time is not required
FormIsValidNoTime(form) ==
    /\ Truthy(form.patient)
    /\ Truthy(form.doctor)
    /\ Truthy(form.date)

\* saveClerkAppointmentForm, saveChiefAppointmentForm: the required fields
FormIsValid(form) ==
    /\ Truthy(form.patient)
    /\ Truthy(form.doctor)
    /\ Truthy(form.date)
    /\ form.time # <<>>

\* saveAppointment, the update branch: the `updates` object (an absent key
\* is Undefined, an absent time the empty label)
SaveUpdates(ap) ==
    LET i == FindDoctor(ap.doctor, ap.doctorId)
        named == Truthy(ap.doctor) \/ Truthy(ap.doctorName)
    IN  [patientName |-> IF Truthy(ap.patient) \/ Truthy(ap.patientName)
                         THEN OrElse(ap.patient, ap.patientName) ELSE Undefined,
         doctorId |-> IF named /\ i # 0
                      THEN OrElse(Doctors[i].uid, Doctors[i].id) ELSE Undefined,
         doctorName |-> IF named /\ i # 0 THEN Doctors[i].name ELSE Undefined,
         date |-> IF Truthy(ap.date) THEN ap.date ELSE Undefined,
         time |-> ap.time,
         status |-> IF Truthy(ap.status) THEN ap.status ELSE Undefined]

\* updateStatus: the `updates` object { status }
StatusUpdates(status) ==
    [patientName |-> Undefined, doctorId |-> Undefined, doctorName |-> Undefined,
     date |-> Undefined, time |-> <<>>, status |-> status]

\* saveAppointment, the create branch: the argument of createWebAppointment
SaveCreateData(ap) ==
    LET i == FindDoctor(ap.doctor, ap.doctorId)
    IN  [patientName |-> OrElse(ap.patient, ap.patientName),
         doctorId |-> OrElse(OrElse(DoctorField(i, "uid"), DoctorField(i, "id")),
                             ap.doctorId),
         doctorName |-> OrElse(DoctorField(i, "name"), OrElse(ap.doctor, ap.doctorName)),
         date |-> ap.date,
         time |-> ap.time,
         status |-> OrElse(ap.status, "scheduled")]

\* createWebAppointment up to the write: "error" when the query or the time
\* test throws, "error_booked" when the slot is found booked, "ok" otherwise
CreateCheck(docs, data) ==
    IF data.doctorId = Undefined THEN "error"
    ELSE IF checkAppointmentConflict(Range(docs), data.doctorId, data.date,
                                     data.time, EmptyId) THEN "error_booked"
    ELSE IF Trim(data.time) = <<>> THEN "error"
    ELSE "ok"

\* the document addDoc writes
NewDoc(id, data) ==
    [id |-> id, doctor |-> Undefined, doctorName |-> OrElse(data.doctorName, ""),
     doctorId |-> OrElse(data.doctorId, Null), patient |-> Undefined,
     patientName |-> OrElse(data.patientName, ""), date |-> OrElse(data.date, ""),
     time |-> Trim(data.time), status |-> OrElse(data.status, "scheduled"),
     updatedBy |-> Undefined]

\* updateWebAppointment up to the write
UpdateCheck(docs, id, upd) ==
    IF ~(Truthy(upd.doctorId) \/ Truthy(upd.date) \/ upd.time # <<>>) THEN "ok"
    ELSE IF ~HasId(docs, id) /\ ~(Truthy(upd.doctorId) /\ Truthy(upd.date) /\ upd.time # <<>>)
         THEN "error"
    ELSE LET doctorId == IF Truthy(upd.doctorId) THEN upd.doctorId
                         ELSE DocById(docs, id).doctorId
             date == IF Truthy(upd.date) THEN upd.date ELSE DocById(docs, id).date
             time == IF upd.time # <<>> THEN upd.time ELSE DocById(docs, id).time
         IN  IF doctorId = Undefined THEN "error"
             ELSE IF checkAppointmentConflict(Range(docs), doctorId, date, time, id)
                  THEN "error_booked"
             ELSE "ok"

\* the document after updateDoc(ref, {...cleanUpdates, updatedAt, updatedBy})
ApplyUpdates(a, upd, who) ==
    [a EXCEPT !.patientName = IF upd.patientName # Undefined THEN upd.patientName ELSE @,
              !.doctorId = IF upd.doctorId # Undefined THEN upd.doctorId ELSE @,
              !.doctorName = IF upd.doctorName # Undefined THEN upd.doctorName ELSE @,
              !.date = IF upd.date # Undefined THEN upd.date ELSE @,
              !.time = IF upd.time # <<>> THEN Trim(upd.time) ELSE @,
              !.status = IF upd.status # Undefined THEN upd.status ELSE @,
              !.updatedBy = who]

\* a faulty variant of the update: it is applied to every document
PatchEvery(docs, id, upd, who) ==
    [k \in 1..Len(docs) |-> ApplyUpdates(docs[k], upd, who)]

\* a collection after updateDoc on the document `id`
Patch(docs, id, upd, who) ==
    [k \in 1..Len(docs) |->
        IF docs[k].id = id THEN ApplyUpdates(docs[k], upd, who) ELSE docs[k]]

\* a faulty variant of the Clerk's save: the client-side test is skipped
ClerkSaveOutcomeNoClash(ap, appts, docs) ==
    IF IsStoredId(ap.id) THEN UpdateCheck(docs, ap.id, SaveUpdates(ap))
    ELSE CreateCheck(docs, SaveCreateData(ap))

\* Clerk dashboard, saveAppointment up to the write: how the handler goes on
ClerkSaveOutcome(ap, appts, docs) ==
    IF clash(ap, appts) THEN "alert_booked"
    ELSE IF IsStoredId(ap.id) THEN UpdateCheck(docs, ap.id, SaveUpdates(ap))
    ELSE CreateCheck(docs, SaveCreateData(ap))

\* Chief dashboard, saveAppointment up to the write: no client-side test
ChiefSaveOutcome(ap, docs) ==
    IF IsStoredId(ap.id) THEN UpdateCheck(docs, ap.id, SaveUpdates(ap))
    ELSE CreateCheck(docs, SaveCreateData(ap))

\* Save clicked in an appointment form, up to the write: the validation of
\* saveClerkAppointmentForm / saveChiefAppointmentForm, then onSave
FormSaveOutcome(dashboard, form, appts) ==
    IF ~FormIsValid(form) THEN "alert_required"
    ELSE IF dashboard = "clerk" THEN ClerkSaveOutcome(form, appts, appts)
    ELSE ChiefSaveOutcome(form, appts)

\* the forms Save is clicked on, filled in or not: "+ Add" opens the form
\* with time '' and, when the lists are empty, patient '' and doctor ''
SaveForms(appts) ==
    {[Appt(id, doctor, Undefined, "u1", date, time, "Scheduled")
        EXCEPT !.patient = patient, !.patientName = Undefined] :
        id \in IdsOf(appts) \cup {TempId}, patient \in {"", "Huda"},
        doctor \in {"", DrSara}, date \in {"", Monday}, time \in {<<>>, T("09:30")}}

\* Save clicked on a form, the snapshot being the store's content
CallSaveForm ==
    /\ fnOut = NoCall
    /\ \E dashboard \in {"clerk", "chief"}, form \in SaveForms(fnAppts) :
          fnOut' = [op |-> "saveForm", dashboard |-> dashboard, form |-> form,
                    result |-> FormSaveOutcome(dashboard, form, fnAppts)]
    /\ UNCHANGED <<fnAppts, sysVars>>

\* Clerk doctors page: the doctors, patients and appointments of the
\* application context (collections doctors, patients, appointments); a
\* record names its doctor by doctorId or, in the legacy format, by name
CtxDoctors ==
    <<[id |-> "d1", name |-> DrSara], [id |-> "d2", name |-> DrOmar]>>

CtxPatientPool ==
    {[id |-> "p1", doctorId |-> "d1", doctorName |-> Undefined],
     [id |-> "p2", doctorId |-> Undefined, doctorName |-> DrOmar],
     [id |-> "p3", doctorId |-> "d2", doctorName |-> DrSara]}

CtxAppointmentPool ==
    {[id |-> "a1", doctorId |-> "d1", doctor |-> Undefined],
     [id |-> "a2", doctorId |-> Undefined, doctor |-> DrOmar],
     [id |-> "a3", doctorId |-> "", doctor |-> DrSara]}

\* Clerk doctors page, countPatientsFor, by id only
countPatientsById(doc, patients) ==
    Cardinality({p \in patients : p.doctorId = doc.id})

\* Clerk doctors page, countPatientsFor
countPatientsFor(doc, patients) ==
    Cardinality({p \in patients : p.doctorId = doc.id})
      + Cardinality({p \in patients : ~Truthy(p.doctorId) /\ p.doctorName = doc.name})

\* Clerk doctors page, countAppointmentsFor
countAppointmentsFor(doc, appointments) ==
    Cardinality({a \in appointments : a.doctorId = doc.id})
      + Cardinality({a \in appointments : ~Truthy(a.doctorId) /\ a.doctor = doc.name})

\* application context, deleteDoctor: the record with that id leaves the
\* doctors collection
deleteDoctor(doctors, id) == Without(doctors, id)

\* Clerk doctors page, handleDeleteDoctor: the warning and the collection
\* after the click
handleDeleteDoctor(doctors, id, patients, appointments) ==
    LET doc == doctors[FirstIndex({k \in 1..Len(doctors) : doctors[k].id = id})]
        nPatients == countPatientsFor(doc, patients)
        nAppointments == countAppointmentsFor(doc, appointments)
    IN  IF nPatients > 0 \/ nAppointments > 0
        THEN [warn |-> "cannot_delete", pc |-> nPatients, ac |-> nAppointments, doctors |-> doctors]
        ELSE [warn |-> "", pc |-> nPatients, ac |-> nAppointments, doctors |-> deleteDoctor(doctors, id)]

\* Delete clicked on a doctor of the Clerk doctors page
CallDeleteDoctor ==
    /\ fnOut = NoCall
    /\ \E k \in 1..Len(CtxDoctors), patients \in SUBSET CtxPatientPool,
          appointments \in SUBSET CtxAppointmentPool :
          fnOut' = [op |-> "deleteDoctor", id |-> CtxDoctors[k].id,
                    patients |-> patients, appointments |-> appointments,
                    result |-> handleDeleteDoctor(CtxDoctors, CtxDoctors[k].id,
                                                  patients, appointments)]
    /\ UNCHANGED <<fnAppts, sysVars>>


\* firestoreService, appDeleteDoc: the document with that id leaves the
\* collection of that name, the other collections are left alone
appDeleteDoc(stores, collectionName, id) ==
    [stores EXCEPT ![collectionName] = Without(@, id)]

\* Clerk dashboard, Waitlist panel: the entries of subscribeToWebWaitlist
WaitlistPanel(stores) == stores.web_waitlist

\* Clerk dashboard, Waitlist panel, Remove button of the entry w
removeWaitlistEntry(stores, w) == appDeleteDoc(stores, "waitlist", w.id)

\* the collections behind the panel: web_waitlist, written by
\* createWebWaitlistEntry, and the older collection waitlist
WaitlistStores ==
    LET entry(id, patient) ==
            [id |-> id, patient |-> patient, department |-> "Cardiology"]
    IN  {[web_waitlist |-> web, waitlist |-> old] :
            web \in {<<entry("w1", "Huda")>>,
                     <<entry("w2", "Omar Said"), entry("w1", "Huda")>>},
            old \in {<<>>, <<entry("w0", "Rami")>>}}

\* Remove clicked on an entry of the Waitlist panel
CallRemoveWaitlist ==
    /\ fnOut = NoCall
    /\ \E stores \in WaitlistStores :
          \E k \in 1..Len(WaitlistPanel(stores)) :
             fnOut' = [op |-> "removeWaitlist", stores |-> stores,
                       entry |-> WaitlistPanel(stores)[k],
                       result |-> removeWaitlistEntry(stores, WaitlistPanel(stores)[k])]
    /\ UNCHANGED <<fnAppts, sysVars>>


\* the status buttons of a listed appointment: Confirm / Mark Completed is
\* shown unless the status is "Completed", Cancel unless it is "Cancelled"
StatusButtons(a) == {status \in {"Completed", "Cancelled"} : a.status # status}

\* updateStatus, a status button clicked on the listed appointment `id`:
\* the collection after updateWebAppointment(id, { status })
updateStatus(appts, id, status) == Patch(appts, id, StatusUpdates(status), "c1")

\* a status button clicked, the snapshot being the store's content
CallUpdateStatus ==
    /\ fnOut = NoCall
    /\ \E a \in Range(fnAppts) : \E status \in StatusButtons(a) :
          fnOut' = [op |-> "updateStatus", id |-> a.id, status |-> status,
                    result |-> updateStatus(fnAppts, a.id, status)]
    /\ UNCHANGED <<fnAppts, sysVars>>

FnNext ==
    \/ CallAvailableSlots
    \/ CallSlots
    \/ CallChiefSlots
    \/ CallClash
    \/ CallCheckConflict
    \/ CallNormalize
    \/ CallCancelEntry
    \/ CallSaveForm
    \/ CallDeleteDoctor
    \/ CallRemoveWaitlist
    \/ CallUpdateStatus

SpecFn == FnInit /\ [][FnNext]_vars

\* a handler may start: the client is idle (and the budget is not used up)
Idle(c) == pc[c] = "idle" /\ ops < MaxOps

\* the save handler ran up to its write, or ended in an alert or an error
StartSave(c, ap, out) ==
    /\ last' = [last EXCEPT ![c] = [op |-> "save", n |-> ops + 1, ap |-> ap,
                                    out |-> IF out = "ok" THEN "checked" ELSE out]]
    /\ IF out = "ok"
       THEN /\ pc' = [pc EXCEPT ![c] = IF IsStoredId(ap.id) THEN "update_write"
                                       ELSE "create_write"]
            /\ cur' = [cur EXCEPT ![c] =
                          IF IsStoredId(ap.id)
                          THEN [kind |-> "update", id |-> ap.id, updates |-> SaveUpdates(ap)]
                          ELSE [kind |-> "create", data |-> SaveCreateData(ap)]]
       ELSE UNCHANGED <<pc, cur>>
    /\ ops' = ops + 1
    /\ UNCHANGED <<fnVars, store, nextId, waitlist, snap, role>>

\* Save clicked in the Clerk dashboard's appointment form
ClerkSave(c) ==
    /\ role[c] = "clerk"
    /\ Idle(c)
    /\ \E ap \in ClerkForms(snap[c]) :
          /\ FormIsValid(ap)
          /\ StartSave(c, ap, ClerkSaveOutcome(ap, snap[c], store))

\* Save clicked in the Chief dashboard's appointment form
ChiefSave(c) ==
    /\ role[c] = "chief"
    /\ Idle(c)
    /\ \E ap \in ChiefForms(snap[c]) :
          /\ FormIsValid(ap)
          /\ StartSave(c, ap, ChiefSaveOutcome(ap, store))

\* a variant of the write that looks at the store again and adds nothing
\* when the slot is held (a check and write in one transaction)
CreateWriteIfFree(c) ==
    /\ pc[c] = "create_write"
    /\ LET doc == NewDoc(nextId + 1, cur[c].data)
           held == \E a \in Range(store) : /\ a.doctorId = doc.doctorId
                                           /\ a.date = doc.date
                                           /\ a.time = doc.time
                                           /\ NotCancelledEitherCase(a.status)
       IN  IF held
           THEN /\ last' = [last EXCEPT ![c].out = "error_booked"]
                /\ UNCHANGED <<store, snap, nextId>>
           ELSE /\ store' = Append(store, doc)
                /\ snap' = [snap EXCEPT ![c] = Append(@, doc)]
                /\ nextId' = nextId + 1
                /\ last' = [last EXCEPT ![c].out = "created"]
    /\ pc' = [pc EXCEPT ![c] = "idle"]
    /\ cur' = [cur EXCEPT ![c] = NoCur]
    /\ UNCHANGED <<fnVars, waitlist, role, ops>>

\* createWebAppointment, the addDoc; the client's listener shows its own
\* write at once
CreateWrite(c) ==
    /\ pc[c] = "create_write"
    /\ LET doc == NewDoc(nextId + 1, cur[c].data)
       IN  /\ store' = Append(store, doc)
           /\ snap' = [snap EXCEPT ![c] = Append(@, doc)]
    /\ nextId' = nextId + 1
    /\ pc' = [pc EXCEPT ![c] = "idle"]
    /\ cur' = [cur EXCEPT ![c] = NoCur]
    /\ last' = [last EXCEPT ![c].out = "created"]
    /\ UNCHANGED <<fnVars, waitlist, role, ops>>

\* updateWebAppointment, the updateDoc: it fails when the document is gone
UpdateWrite(c) ==
    /\ pc[c] = "update_write"
    /\ IF HasId(store, cur[c].id)
       THEN /\ store' = Patch(store, cur[c].id, cur[c].updates, c)
            /\ snap' = [snap EXCEPT ![c] = Patch(@, cur[c].id, cur[c].updates, c)]
            /\ last' = [last EXCEPT ![c].out = "updated"]
       ELSE /\ last' = [last EXCEPT ![c].out = "error"]
            /\ UNCHANGED <<store, snap>>
    /\ pc' = [pc EXCEPT ![c] = "idle"]
    /\ cur' = [cur EXCEPT ![c] = NoCur]
    /\ UNCHANGED <<fnVars, nextId, waitlist, role, ops>>

\* updateWebAppointment(id, { status }): no conflict query, then updateDoc
StatusWrite(c, a, status, out) ==
    /\ IF HasId(store, a.id)
       THEN /\ store' = Patch(store, a.id, StatusUpdates(status), c)
            /\ snap' = [snap EXCEPT ![c] = Patch(@, a.id, StatusUpdates(status), c)]
       ELSE UNCHANGED <<store, snap>>
    /\ last' = [last EXCEPT ![c] = [op |-> "status", n |-> ops + 1, id |-> a.id,
                                    status |-> status,
                                    out |-> IF HasId(store, a.id) THEN out ELSE "error"]]
    /\ ops' = ops + 1
    /\ UNCHANGED <<fnVars, nextId, waitlist, role>>

\* a faulty variant: the waitlist question follows every status write
OffersAlways(status) == TRUE

\* updateStatus of the Clerk dashboard: if (status === "Cancelled")
OffersWaitlist(status) == status = "Cancelled"

\* a faulty variant of updateStatus: the question is asked whether or not
\* the status write went through
ClerkUpdateStatusAsksAnyway(c) ==
    /\ role[c] = "clerk"
    /\ Idle(c)
    /\ \E a \in Range(snap[c]) : \E status \in StatusButtons(a) :
          /\ StatusWrite(c, a, status, IF OffersWaitlist(status) THEN "asking" ELSE "written")
          /\ IF OffersWaitlist(status)
             THEN /\ pc' = [pc EXCEPT ![c] = "offer"]
                  /\ cur' = [cur EXCEPT ![c] =
                                [kind |-> "offer", ap |-> a,
                                 dep |-> getDeptByDoctorName(OrElse(a.doctor, a.doctorName))]]
             ELSE UNCHANGED <<pc, cur>>

\* Clerk dashboard, updateStatus: the write, then for "Cancelled" the
\* question whether the patient goes on the waitlist (ap is the appointment
\* as listed when the button was clicked)
ClerkUpdateStatus(c) ==
    /\ role[c] = "clerk"
    /\ Idle(c)
    /\ \E a \in Range(snap[c]) : \E status \in StatusButtons(a) :
          /\ StatusWrite(c, a, status, IF OffersWaitlist(status) THEN "asking" ELSE "written")
          /\ IF HasId(store, a.id) /\ OffersWaitlist(status)
             THEN /\ pc' = [pc EXCEPT ![c] = "offer"]
                  /\ cur' = [cur EXCEPT ![c] =
                                [kind |-> "offer", ap |-> a,
                                 dep |-> getDeptByDoctorName(OrElse(a.doctor, a.doctorName))]]
             ELSE UNCHANGED <<pc, cur>>

\* window.confirm answered OK: createWebWaitlistEntry
OfferYes(c) ==
    /\ pc[c] = "offer"
    /\ waitlist' = Append(waitlist,
          [patient |-> OrElse(cur[c].ap.patient, cur[c].ap.patientName),
           department |-> cur[c].dep,
           preferredDate |-> cur[c].ap.date,
           notes |-> [doctor |-> OrElse(cur[c].ap.doctor, cur[c].ap.doctorName),
                      time |-> cur[c].ap.time],
           status |-> "waiting",
           createdBy |-> c])
    /\ pc' = [pc EXCEPT ![c] = "idle"]
    /\ cur' = [cur EXCEPT ![c] = NoCur]
    /\ last' = [last EXCEPT ![c].out = "waitlisted"]
    /\ UNCHANGED <<fnVars, store, nextId, snap, role, ops>>

\* a faulty variant of the refusal: the entry is added all the same
OfferNoButAdds(c) ==
    /\ pc[c] = "offer"
    /\ waitlist' = Append(waitlist,
          [patient |-> OrElse(cur[c].ap.patient, cur[c].ap.patientName),
           department |-> cur[c].dep,
           preferredDate |-> cur[c].ap.date,
           notes |-> [doctor |-> OrElse(cur[c].ap.doctor, cur[c].ap.doctorName),
                      time |-> cur[c].ap.time],
           status |-> "waiting",
           createdBy |-> c])
    /\ pc' = [pc EXCEPT ![c] = "idle"]
    /\ cur' = [cur EXCEPT ![c] = NoCur]
    /\ last' = [last EXCEPT ![c].out = "declined"]
    /\ UNCHANGED <<fnVars, store, nextId, snap, role, ops>>

\* window.confirm answered Cancel: the handler ends
OfferNo(c) ==
    /\ pc[c] = "offer"
    /\ pc' = [pc EXCEPT ![c] = "idle"]
    /\ cur' = [cur EXCEPT ![c] = NoCur]
    /\ last' = [last EXCEPT ![c].out = "declined"]
    /\ UNCHANGED <<fnVars, store, nextId, waitlist, snap, role, ops>>

\* the entries the Clerk types into the "+ Add Waitlist" form: the form
\* opens with patient '' and department '', today as preferredDate, notes ''
WaitlistForms ==
    {[patient |-> patient, department |-> "Cardiology", preferredDate |-> Monday,
      notes |-> ""] : patient \in {"", "Huda"}}

\* a faulty variant of the form validation: every form is saved
WaitlistFormAny(form) == TRUE

\* saveWaitlistForm: if (!form.patient || !form.department) return alert(...)
WaitlistFormIsValid(form) == Truthy(form.patient) /\ Truthy(form.department)

\* Clerk dashboard, "+ Add Waitlist": WaitlistModal, saveWaitlistForm, onSave,
\* createWebWaitlistEntry
WaitlistAdd(c) ==
    /\ role[c] = "clerk"
    /\ Idle(c)
    /\ \E form \in WaitlistForms :
          /\ waitlist' = IF WaitlistFormIsValid(form)
                         THEN Append(waitlist,
                                     [patient |-> form.patient,
                                      department |-> form.department,
                                      preferredDate |-> form.preferredDate,
                                      notes |-> OrElse(form.notes, ""),
                                      status |-> "waiting",
                                      createdBy |-> c])
                         ELSE waitlist
          /\ last' = [last EXCEPT ![c] =
                          [op |-> "waitlist", n |-> ops + 1, form |-> form,
                           out |-> IF WaitlistFormIsValid(form) THEN "waitlist_added"
                                   ELSE "alert_required"]]
    /\ ops' = ops + 1
    /\ UNCHANGED <<fnVars, store, nextId, snap, pc, cur, role>>

\* Chief dashboard, updateStatus: the write only
ChiefUpdateStatus(c) ==
    /\ role[c] = "chief"
    /\ Idle(c)
    /\ \E a \in Range(snap[c]) : \E status \in StatusButtons(a) :
          StatusWrite(c, a, status, "written")
    /\ UNCHANGED <<pc, cur>>

\* deleteAppointment, after the confirmation dialog: deleteDoc
DeleteAppointment(c) ==
    /\ Idle(c)
    /\ \E a \in Range(snap[c]) :
          /\ store' = Without(store, a.id)
          /\ snap' = [snap EXCEPT ![c] = Without(@, a.id)]
          /\ last' = [last EXCEPT ![c] = [op |-> "delete", n |-> ops + 1, id |-> a.id,
                                          out |-> "deleted"]]
    /\ ops' = ops + 1
    /\ UNCHANGED <<fnVars, nextId, waitlist, pc, cur, role>>

Next ==
    \E c \in Clients :
        \/ Refresh(c)
        \/ ClerkSave(c)
        \/ ChiefSave(c)
        \/ CreateWrite(c)
        \/ UpdateWrite(c)
        \/ ClerkUpdateStatus(c)
        \/ ChiefUpdateStatus(c)
        \/ OfferYes(c)
        \/ OfferNo(c)
        \/ DeleteAppointment(c)
        \/ WaitlistAdd(c)

Spec == Init /\ [][Next]_vars

---------------------------------------------------------------------------
(* What the claims speak of, stated apart from the code.                   *)

\* the status in lower case, over the spellings the dashboards write
LowerStatus(status) ==
    CASE status = "Scheduled" -> "scheduled"
      [] status = "Completed" -> "completed"
      [] status = "Cancelled" -> "cancelled"
      [] OTHER -> status

IsCancelled(status) == LowerStatus(status) = "cancelled"

\* the appointment belongs to the doctor called docName: by its name field,
\* or by an id it carries that is the doctor's id or uid
BelongsTo(a, docName) ==
    \/ OrElse(a.doctor, a.doctorName) = docName
    \/ LET i == FindDoctorByName(docName)
       IN  /\ i # 0
           /\ Truthy(a.doctorId)
           /\ a.doctorId \in {Doctors[i].id, Doctors[i].uid}

\* the appointments that hold a slot of the doctor on the date
Holders(appts, docName, dateStr) ==
    {a \in Range(appts) : /\ BelongsTo(a, docName)
                          /\ a.date = dateStr
                          /\ ~IsCancelled(a.status)}

\* resolveSlots of the Clerk dashboard: the candidate list before filtering
resolveSlots(docName, dateStr, tz) ==
    IF ~Truthy(dateStr) THEN ClerkNoDateSlots(docName)
    ELSE ClerkBase(docName, dateStr, tz)

\* the candidates, normalised, without the labels in `taken`, in order
Remaining(candidates, taken) ==
    LET Free(s) == s \notin taken
    IN  SelectSeq(MapNormalize(candidates), Free)

\* C1: availableSlots returns exactly the normalised candidates of
\* resolveSlots(doctor, date) whose label is not the normalised time of an
\* appointment of the same doctor and date that is not cancelled, in the
\* candidates' order.
C1_AvailableIsCandidatesMinusTaken ==
    fnOut.op = "availableSlots" =>
        fnOut.result =
            Remaining(resolveSlots(fnOut.docName, fnOut.dateStr, fnOut.tz),
                      {Normalize(a.time) :
                          a \in Holders(fnAppts, fnOut.docName, fnOut.dateStr)})

\* C2: the pre-save conflict check is true exactly when some appointment has
\* the same doctor, the same date, the same normalised time, a status other
\* than Cancelled in any letter case, and an id other than excludeId.
C2_ConflictIffHolder ==
    /\ fnOut.op = "clash" =>
          (fnOut.result <=>
              \E a \in Holders(fnAppts, fnOut.ap.doctor, fnOut.ap.date) :
                  /\ Normalize(a.time) = Normalize(fnOut.ap.time)
                  /\ a.id # fnOut.ap.id)
    /\ fnOut.op = "checkAppointmentConflict" =>
          (fnOut.result <=>
              \E a \in Range(fnAppts) :
                  /\ a.doctorId = fnOut.doctorId
                  /\ a.date = fnOut.date
                  /\ Normalize(a.time) = Normalize(fnOut.time)
                  /\ ~IsCancelled(a.status)
                  /\ a.id # fnOut.excludeId)

---------------------------------------------------------------------------
(* The ledger's steps, as the claims name them.                            *)

\* client c started a handler in this step
Started(c) == ops' = ops + 1 /\ last'[c].n = ops'

\* client c clicked Save in this step with the form ap
SaveStep(c) == Started(c) /\ last'[c].op = "save"

\* client c's status button wrote `status` in this step
StatusStep(c, status) ==
    /\ Started(c)
    /\ last'[c].op = "status"
    /\ last'[c].status = status
    /\ last'[c].out # "error"

\* the store's query finds the slot of the request booked
StoreFindsConflict(ap, docs) ==
    IF IsStoredId(ap.id)
    THEN checkAppointmentConflict(Range(docs), SaveUpdates(ap).doctorId,
                                  SaveUpdates(ap).date, SaveUpdates(ap).time, ap.id)
    ELSE checkAppointmentConflict(Range(docs), SaveCreateData(ap).doctorId,
                                  SaveCreateData(ap).date, SaveCreateData(ap).time, EmptyId)

\* the conflict checks the save of client c runs, on what they read
ConflictCheckIsTrue(c, ap) ==
    \/ role[c] = "clerk" /\ clash(ap, snap[c])
    \/ StoreFindsConflict(ap, store)

\* two appointments that are not cancelled on one doctor, date and time
DoubleBooked(docs) ==
    \E j, k \in 1..Len(docs) :
        /\ j < k
        /\ docs[j].doctorId = docs[k].doctorId
        /\ docs[j].date = docs[k].date
        /\ Normalize(docs[j].time) = Normalize(docs[k].time)
        /\ ~IsCancelled(docs[j].status)
        /\ ~IsCancelled(docs[k].status)

\* C3: whenever the conflict check is true for a booking or edit request,
\* the save is rejected: nothing is created or updated, the ledger is left
\* as it was, no write is pending and so no other slot is written instead.
C3_ConflictRejectsSave ==
    [][\A c \in Clients :
          (SaveStep(c) /\ ConflictCheckIsTrue(c, last'[c].ap)) =>
              /\ last'[c].out \in {"alert_booked", "error_booked"}
              /\ store' = store
              /\ waitlist' = waitlist
              /\ pc'[c] = "idle"
              /\ cur'[c] = NoCur]_vars

\* a save was turned down by the client-side test and another by the store
C3_Witness ==
    /\ last["c1"].op = "save" /\ last["c1"].out = "alert_booked"
    /\ last["c2"].op = "save" /\ last["c2"].out = "error_booked"
    /\ store = <<Seed>>

\* C4: the check and the write are two steps: a client that passed its
\* checks writes its appointment whatever the store holds by then, so two
\* clients booking the same doctor, date and time both write and the store
\* holds two appointments that are not cancelled on one slot.
C4_WriteAfterCheckIsUnconditional ==
    [][\A c \in Clients :
          (pc[c] = "create_write" /\ pc'[c] = "idle") =>
              /\ store' = Append(store, NewDoc(nextId + 1, cur[c].data))
              /\ last'[c].out = "created"]_vars

\* both clients booked the same slot, both saves went through
C4_Witness ==
    /\ \A c \in Clients : last[c].op = "save" /\ last[c].out = "created"
                          /\ ~IsStoredId(last[c].ap.id)
    /\ last["c1"].ap.doctor = last["c2"].ap.doctor
    /\ last["c1"].ap.time = last["c2"].ap.time
    /\ Len(store) = Len(<<Seed>>) + Cardinality(Clients)
    /\ DoubleBooked(SubSeq(store, Len(store) - 1, Len(store)))

\* C5: the status buttons only take an appointment from Scheduled to
\* Completed or from Scheduled to Cancelled: a status button never writes
\* to an appointment that is Completed or Cancelled.
C5_StatusButtonsFromScheduledOnly ==
    [][\A c \in Clients : \A status \in {"Completed", "Cancelled"} :
          StatusStep(c, status) =>
              LowerStatus(DocById(store, last'[c].id).status) = "scheduled"]_vars

\* C6: cancelling creates a waitlist entry exactly when the operator says
\* yes to the offer: the cancelling step itself adds none, a yes adds the
\* patient's entry, a no adds none, ends without error and leaves the
\* appointments as they are.
C6_WaitlistEntryIffYes ==
    [][/\ \A c \in Clients :
             StatusStep(c, "Cancelled") => waitlist' = waitlist
       /\ \A c \in Clients :
             (pc[c] = "offer" /\ pc'[c] # "offer") =>
                 /\ store' = store
                 /\ pc'[c] = "idle"
                 /\ \/ /\ last'[c].out = "waitlisted"
                       /\ Len(waitlist') = Len(waitlist) + 1
                       /\ SubSeq(waitlist', 1, Len(waitlist)) = waitlist
                       /\ waitlist'[Len(waitlist')].patient =
                              OrElse(cur[c].ap.patient, cur[c].ap.patientName)
                       /\ waitlist'[Len(waitlist')].preferredDate = cur[c].ap.date
                    \/ /\ last'[c].out = "declined"
                       /\ waitlist' = waitlist]_vars

\* one operator said yes and the other said no to the offer
C6_Witness ==
    /\ last["c1"].op = "status" /\ last["c1"].out = "waitlisted"
    /\ last["c2"].op = "status" /\ last["c2"].out = "declined"
    /\ Len(waitlist) = 1
    /\ \A a \in Range(store) : a.status = "Cancelled"

\* the form is the unchanged copy of the listed appointment a
UnchangedEdit(form, a) ==
    /\ form.id = a.id
    /\ form.doctor = OrElse(a.doctor, a.doctorName)
    /\ form.doctorId = a.doctorId
    /\ form.date = a.date
    /\ form.time = a.time

\* C7: the appointment named by excludeId does not count: the slot list, the
\* clash test and the store's check give what they give on the ledger
\* without it; an edit that leaves doctor, date and time alone does not
\* clash with itself, and its own time stays in the slot list.
C7_ExcludedAppointmentDoesNotCount ==
    /\ fnOut.op = "slots" =>
          /\ fnOut.result = slots(fnOut.form, Without(fnAppts, fnOut.form.id))
          /\ \A a \in Range(fnAppts) :
                (/\ Len(fnAppts) = 1
                 /\ UnchangedEdit(fnOut.form, a)
                 /\ Normalize(a.time) \in Range(MapNormalize(ModalBase(fnOut.form))))
                => Normalize(a.time) \in Range(fnOut.result)
    /\ fnOut.op = "chiefSlots" =>
          fnOut.result = chiefSlots(fnOut.form, Without(fnAppts, fnOut.form.id))
    /\ fnOut.op = "clash" =>
          /\ fnOut.result = clash(fnOut.ap, Without(fnAppts, fnOut.ap.id))
          /\ \A a \in Range(fnAppts) :
                (Len(fnAppts) = 1 /\ UnchangedEdit(fnOut.ap, a)) => ~fnOut.result
    /\ (fnOut.op = "checkAppointmentConflict" /\ fnOut.excludeId # EmptyId) =>
          fnOut.result =
              checkAppointmentConflict(Range(Without(fnAppts, fnOut.excludeId)),
                                       fnOut.doctorId, fnOut.date, fnOut.time, EmptyId)

\* the form edits a listed appointment that holds its slot, nothing is
\* changed, and the appointment's own time is offered
C7_Witness ==
    /\ fnOut.op = "slots"
    /\ \E a \in Range(fnAppts) :
          /\ UnchangedEdit(fnOut.form, a)
          /\ NotCancelledEitherCase(a.status)
          /\ Normalize(a.time) \in Range(fnOut.result)
          /\ Normalize(a.time) \notin Range(slotsKeepAll(fnOut.form, fnAppts))

\* C8: once an appointment is Cancelled, in either spelling, its time is
\* among the available slots of its doctor and date again, provided the time
\* is one of the doctor's candidates and no other appointment that is not
\* cancelled holds it.
C8_CancelledTimeIsAvailableAgain ==
    \A c \in Clients : \A a \in Range(snap[c]) : \A tz \in FnZones :
        LET docName == OrElse(a.doctor, a.doctorName)
            label == Normalize(a.time)
        IN  (/\ a.status \in {"Cancelled", "cancelled"}
             /\ label \in Range(MapNormalize(resolveSlots(docName, a.date, tz)))
             /\ ~\E b \in Holders(snap[c], docName, a.date) : Normalize(b.time) = label)
            => label \in Range(availableSlots(docName, a.date, snap[c], tz))

\* the Cancel button was used and the dashboard offers the time again
C8_Witness ==
    \E c \in Clients :
        /\ last[c].op = "status"
        /\ last[c].status = "Cancelled"
        /\ \E a \in Range(snap[c]) :
              /\ a.id = last[c].id
              /\ a.status = "Cancelled"
              /\ Normalize(a.time) \in Range(availableSlots(a.doctorName, a.date, snap[c], 0))

\* C9: cancelling one appointment leaves every other appointment as it was
\* and changes nothing of the cancelled one but its status and the update
\* bookkeeping.
C9_CancelChangesOnlyTheStatus ==
    [][\A c \in Clients :
          StatusStep(c, "Cancelled") =>
              /\ Len(store') = Len(store)
              /\ \A k \in 1..Len(store) :
                    store'[k] = IF store[k].id = last'[c].id
                                THEN [store[k] EXCEPT !.status = "Cancelled",
                                                      !.updatedBy = c]
                                ELSE store[k]]_vars

\* one of two appointments was cancelled by its button, the other stands
C9_Witness ==
    \E c \in Clients :
        /\ last[c].op = "status"
        /\ last[c].status = "Cancelled"
        /\ last[c].out \in {"asking", "written"}
        /\ Len(store) > 1
        /\ \E a, b \in Range(store) :
              /\ a.id = last[c].id /\ a.status = "Cancelled" /\ a.updatedBy = c
              /\ b.id # a.id /\ ~IsCancelled(b.status)

\* C10: a transition to Completed does nothing but write the status: the
\* waitlist is unchanged, the operator is asked nothing, and no other
\* appointment is modified.
C10_CompletedHasNoSideEffect ==
    [][\A c \in Clients :
          StatusStep(c, "Completed") =>
              /\ waitlist' = waitlist
              /\ pc'[c] = "idle"
              /\ cur'[c] = NoCur
              /\ last'[c].out = "written"
              /\ Len(store') = Len(store)
              /\ \A k \in 1..Len(store) :
                    store'[k] = IF store[k].id = last'[c].id
                                THEN [store[k] EXCEPT !.status = "Completed",
                                                      !.updatedBy = c]
                                ELSE store[k]]_vars

\* the Clerk marked one of two appointments Completed
C10_Witness ==
    \E c \in Clients :
        /\ role[c] = "clerk"
        /\ last[c].op = "status"
        /\ last[c].status = "Completed"
        /\ last[c].out = "written"
        /\ pc[c] = "idle"
        /\ Len(store) > 1
        /\ \E a \in Range(store) : a.id = last[c].id /\ a.status = "Completed"

---------------------------------------------------------------------------
(* Slot resolution, as the claims name it.                                 *)

\* the weekday entry of the doctor's workSchedule for the calendar weekday
\* of the date (NoDay when the doctor or the schedule is missing)
DeclaredDay(docName, dateStr) ==
    LET i == FindDoctorByName(docName)
    IN  IF i # 0 /\ Doctors[i].hasWorkSchedule /\ IsValidDate(dateStr)
        THEN Doctors[i].workSchedule[LocalParsedDay(dateStr) + 1]
        ELSE NoDay

\* the candidate list behind the recorded call
CallCandidates ==
    CASE fnOut.op = "availableSlots" ->
             resolveSlots(fnOut.docName, fnOut.dateStr, fnOut.tz)
      [] fnOut.op = "slots" -> ModalBase(fnOut.form)
      [] fnOut.op = "chiefSlots" -> ChiefBase(fnOut.form.doctor, fnOut.form.date)
      [] OTHER -> <<>>

\* the doctor and the date of the recorded call
CallDoctor ==
    IF fnOut.op = "availableSlots" THEN fnOut.docName
    ELSE IF fnOut.op \in {"slots", "chiefSlots"} THEN fnOut.form.doctor
    ELSE Undefined

CallDate ==
    IF fnOut.op = "availableSlots" THEN fnOut.dateStr
    ELSE IF fnOut.op \in {"slots", "chiefSlots"} THEN fnOut.form.date
    ELSE Undefined

\* the recorded call computed a slot list
IsSlotCall == fnOut.op \in {"availableSlots", "slots", "chiefSlots"}

\* C11: for a doctor with a work schedule and a valid date whose weekday
\* entry is enabled with a non-empty slot list, the candidates are that
\* day's slots in the declared order, normalised, and nothing else; with no
\* appointment in the way the computed slot list is exactly that list.
C11_EnabledDayGivesItsSlots ==
    (IsSlotCall /\ DayUsable(DeclaredDay(CallDoctor, CallDate))) =>
        /\ MapNormalize(CallCandidates) =
               MapNormalize(DeclaredDay(CallDoctor, CallDate).slots)
        /\ fnAppts = <<>> =>
               fnOut.result = MapNormalize(DeclaredDay(CallDoctor, CallDate).slots)

\* the work schedule gives the doctor nothing for the date: no doctor record,
\* no schedule, or a weekday entry that is missing, disabled or empty
NothingScheduled(docName, dateStr) ==
    LET i == FindDoctorByName(docName)
    IN  \/ i = 0
        \/ ~Doctors[i].hasWorkSchedule
        \/ IsValidDate(dateStr) /\ ~DayUsable(DeclaredDay(docName, dateStr))

\* the slot lists stored on the disabled weekdays of the doctor
DisabledDaySlots(docName) ==
    LET i == FindDoctorByName(docName)
    IN  IF i = 0 THEN {}
        ELSE {Doctors[i].workSchedule[d].slots :
                 d \in {e \in 1..7 : /\ Doctors[i].workSchedule[e].present
                                     /\ ~Doctors[i].workSchedule[e].enabled
                                     /\ Len(Doctors[i].workSchedule[e].slots) > 0}}

\* C12: the candidate list is never empty; for a doctor whose weekday is
\* disabled or empty, or who has no work schedule, and who has no static
\* fallback list, it is the 17-entry default grid; the slots stored on a
\* disabled day are never the candidates.
C12_NeverEmptyDefaultGrid ==
    IsSlotCall =>
        /\ CallCandidates # <<>>
        /\ (NothingScheduled(CallDoctor, CallDate) /\ doctorSlots(CallDoctor) = <<>>) =>
               /\ CallCandidates = defaultSlots
               /\ Len(CallCandidates) = 17
        /\ CallCandidates \notin DisabledDaySlots(CallDoctor)

\* the fallback chain: the doctor's static list if one is configured, the
\* default grid only when there is none
FallbackChain(docName) ==
    IF doctorSlots(docName) # <<>> THEN doctorSlots(docName) ELSE defaultSlots

\* C13: whenever the weekday schedule yields no slots (doctor unknown, no
\* work schedule, day disabled or empty), every slot computation takes the
\* doctor's static fallback list if one is configured and the default grid
\* only when there is none.
C13_FallbackChainInOrder ==
    (IsSlotCall /\ NothingScheduled(CallDoctor, CallDate)) =>
        MapNormalize(CallCandidates) = MapNormalize(FallbackChain(CallDoctor))

\* C14: a date that cannot be parsed is treated exactly like no date: the
\* slot list computed for it equals the slot list computed for no date, and
\* both are the static fallback list if one is configured and the default
\* grid otherwise.
C14_InvalidDateIsNoDate ==
    (fnOut.op = "availableSlots" /\ ~IsValidDate(fnOut.dateStr)) =>
        /\ fnOut.result = availableSlots(fnOut.docName, "", fnAppts, fnOut.tz)
        /\ MapNormalize(fnOut.result) = MapNormalize(FallbackChain(fnOut.docName))

\* the label holds an AM / PM marker, in either letter case
HasMarker(s) == \E j \in 1..Len(s) : AmPmAt(s, j)

\* the label is in its canonical form: no marker, no surrounding white space
IsCanonical(s) == ~HasMarker(s) /\ Trim(s) = s

\* C15: every label a slot computation returns, on every path (weekday
\* schedule, static fallback list, default grid, with or without a date),
\* carries no AM/PM marker and no surrounding white space.
C15_ReturnedLabelsAreCanonical ==
    IsSlotCall => \A k \in 1..Len(fnOut.result) : IsCanonical(fnOut.result[k])

NoDuplicates(xs) == \A j, k \in 1..Len(xs) : xs[j] = xs[k] => j = k

\* C17: the list a slot computation returns never holds the same label
\* twice, whatever the work schedule (a day may list a label twice, or both
\* a 24-hour label and its AM/PM form) and whatever the appointments.
C17_NoLabelTwice ==
    IsSlotCall => NoDuplicates(fnOut.result)

\* the doctor or the date cannot be resolved: no doctor record answers to
\* the name or the id, or the date is missing or cannot be parsed
Unresolvable(docName, doctorId, dateStr) ==
    \/ FindDoctor(docName, doctorId) = 0
    \/ ~IsValidDate(dateStr)

\* C18: when the doctor or the date cannot be resolved, the slot computation
\* returns the empty list and the conflict test is false for that doctor and
\* date, whatever the appointments are.
C18_UnresolvableIsEmptyAndFree ==
    /\ (IsSlotCall /\ Unresolvable(CallDoctor, CallDoctor, CallDate)) =>
           fnOut.result = <<>>
    /\ (fnOut.op = "clash"
        /\ Unresolvable(fnOut.ap.doctor, fnOut.ap.doctorId, fnOut.ap.date)) =>
           ~fnOut.result

---------------------------------------------------------------------------
(* The waitlist, as the claims name it.                                    *)

\* the department of the doctor named docName, "Unknown" when the doctor is
\* not found or has no department
DepartmentOrUnknown(docName) ==
    LET i == FindDoctorByName(docName)
    IN  IF i = 0 \/ ~Truthy(Doctors[i].department) THEN "Unknown"
        ELSE Doctors[i].department

\* the entry proposed for the cancelled appointment ap
ProposedEntry(ap) ==
    [patient |-> OrElse(ap.patient, ap.patientName),
     department |-> DepartmentOrUnknown(OrElse(ap.doctor, ap.doctorName)),
     preferredDate |-> ap.date,
     notes |-> [doctor |-> OrElse(ap.doctor, ap.doctorName), time |-> ap.time]]

\* C19: the waitlist entry proposed on cancellation has the cancelled
\* appointment's patient, its date as preferredDate, notes naming its doctor
\* and time, and the department of its doctor, or "Unknown" when the doctor
\* is not found or has no department.
C19_ProposedEntryFields ==
    fnOut.op = "cancelEntry" => fnOut.result = ProposedEntry(fnOut.ap)

\* the step is the accepted waitlist offer of a cancellation by client c
AcceptedOffer(c) ==
    /\ pc[c] = "offer"
    /\ last[c].op = "status"
    /\ last[c].status = "Cancelled"
    /\ last'[c].out = "waitlisted"

\* C20, as stated: each creation of a waitlist entry is the accepted offer
\* of an appointment's transition to Cancelled; no other operation creates
\* a waitlist entry.
C20_OnlyCancellationCreatesEntries ==
    [][waitlist' # waitlist => \E c \in Clients : AcceptedOffer(c)]_vars

\* C20, amended: each creation of a waitlist entry is either the accepted
\* offer of a transition to Cancelled or the Clerk's save of the Add
\* Waitlist form with a patient and a department; a form that lacks one of
\* them creates nothing, and no other operation changes the waitlist.
C20_EntriesFromOfferOrAddForm ==
    [][/\ waitlist' # waitlist =>
             /\ Len(waitlist') = Len(waitlist) + 1
             /\ SubSeq(waitlist', 1, Len(waitlist)) = waitlist
             /\ \E c \in Clients :
                   \/ AcceptedOffer(c)
                   \/ /\ role[c] = "clerk"
                      /\ Started(c)
                      /\ last'[c].op = "waitlist"
                      /\ last'[c].out = "waitlist_added"
                      /\ Truthy(last'[c].form.patient)
                      /\ Truthy(last'[c].form.department)
                      /\ waitlist'[Len(waitlist')].patient = last'[c].form.patient
       /\ \A c \in Clients :
             (/\ Started(c)
              /\ last'[c].op = "waitlist"
              /\ ~(Truthy(last'[c].form.patient) /\ Truthy(last'[c].form.department)))
             => waitlist' = waitlist /\ last'[c].out = "alert_required"]_vars

\* the waitlist holds an entry from an accepted offer and one from the Add
\* Waitlist form, and a form without patient was turned down
C20_Witness ==
    /\ Len(waitlist) = 2
    /\ \E c \in Clients : last[c].op = "status" /\ last[c].out = "waitlisted"
    /\ \E c \in Clients : last[c].op = "waitlist" /\ last[c].out = "waitlist_added"

---------------------------------------------------------------------------
(* Validation, determinism and agreement of the computations.              *)

\* one of the required fields of the form is missing
MissingField(form) ==
    \/ ~Truthy(form.patient)
    \/ ~Truthy(form.doctor)
    \/ ~Truthy(form.date)
    \/ form.time = <<>>

C22_SameListInEveryZone ==
    (fnOut.op = "availableSlots" /\ IsValidDate(fnOut.dateStr)) =>
        /\ \A tz \in FnZones :
              availableSlots(fnOut.docName, fnOut.dateStr, fnAppts, tz) = fnOut.result
        /\ UtcParsedDay(fnOut.dateStr, fnOut.tz) = LocalParsedDay(fnOut.dateStr)


\* the doctor Delete was clicked on
DeletedDoctor == CHOOSE d \in Range(CtxDoctors) : d.id = fnOut.id

\* a record names the doctor: by its doctorId, or, a legacy record that has
\* no doctorId, by the doctor's name
PatientAssigned(p, d) ==
    p.doctorId = d.id \/ (~Truthy(p.doctorId) /\ p.doctorName = d.name)

AppointmentRefers(a, d) ==
    a.doctorId = d.id \/ (~Truthy(a.doctorId) /\ a.doctor = d.name)

\* C23: a doctor is not deleted while a patient is assigned to them or an
\* appointment refers to them, by doctor id or by legacy doctor name: the
\* delete request is refused with a warning and the doctors collection is
\* left as it was; a doctor nobody refers to is deleted, and only that one.
C23_DoctorInUseIsNotDeleted ==
    fnOut.op = "deleteDoctor" =>
        LET inUse == \/ \E p \in fnOut.patients : PatientAssigned(p, DeletedDoctor)
                     \/ \E a \in fnOut.appointments : AppointmentRefers(a, DeletedDoctor)
        IN  /\ inUse => /\ fnOut.result.doctors = CtxDoctors
                        /\ fnOut.result.warn = "cannot_delete"
            /\ ~inUse => /\ ~HasId(fnOut.result.doctors, fnOut.id)
                         /\ Len(fnOut.result.doctors) = Len(CtxDoctors) - 1
                         /\ Range(fnOut.result.doctors) \subseteq Range(CtxDoctors)

\* Delete was refused for a doctor whom only a legacy patient record names,
\* no appointment referring to them
C23_Witness ==
    /\ fnOut.op = "deleteDoctor"
    /\ fnOut.result.warn = "cannot_delete"
    /\ fnOut.result.pc = 1 /\ fnOut.result.ac = 0
    /\ \A p \in fnOut.patients : p.doctorId # fnOut.id
    /\ fnOut.result.doctors = CtxDoctors


\* C24: an entry removed in the Waitlist panel is deleted from the store the
\* panel is subscribed to and is no longer in the panel afterwards, the
\* other entries of the panel staying.
C24_RemovedEntryLeavesPanel ==
    fnOut.op = "removeWaitlist" =>
        /\ ~HasId(WaitlistPanel(fnOut.result), fnOut.entry.id)
        /\ WaitlistPanel(fnOut.result) = Without(WaitlistPanel(fnOut.stores), fnOut.entry.id)


\* no two distinct appointments that are not Cancelled hold the same
\* doctor, date and time
NoDoubleBooking(docs) ==
    \A i, j \in 1..Len(docs) :
        (/\ i # j
         /\ NotCancelledEitherCase(docs[i].status)
         /\ NotCancelledEitherCase(docs[j].status)
         /\ docs[i].doctorId = docs[j].doctorId
         /\ docs[i].date = docs[j].date)
        => docs[i].time # docs[j].time


\* C25: a single client whose snapshot is up to date never double-books: a
\* status change made on a ledger without double-bookings (Confirm or
\* Cancel on a listed appointment) leaves the ledger without
\* double-bookings.
C25_SingleClientNeverDoubleBooks ==
    (fnOut.op = "updateStatus" /\ NoDoubleBooking(fnAppts)) =>
        NoDoubleBooking(fnOut.result)

\* the form of a new booking for a listed doctor, carrying that doctor's
\* id, on a valid date and for one of the doctor's candidate times
NewBookingOfCandidate(ap) ==
    LET i == FindDoctorByName(ap.doctor)
    IN  /\ ap.id = TempId
        /\ i # 0
        /\ ap.doctorId = OrElse(Doctors[i].uid, Doctors[i].id)
        /\ IsValidDate(ap.date)
        /\ ap.time \in Range(MapNormalize(ClerkBase(ap.doctor, ap.date, 0)))

\* C26: the availability list and the pre-save guard agree on every
\* snapshot: the clash check accepts the time of a new booking exactly when
\* availableSlots reports that time as free, whatever the letter case of
\* the stored statuses and whether or not stored times carry AM / PM.
C26_GuardAgreesWithAvailability ==
    (fnOut.op = "clash" /\ NewBookingOfCandidate(fnOut.ap)) =>
        (~fnOut.result <=>
            fnOut.ap.time \in
                Range(availableSlots(fnOut.ap.doctor, fnOut.ap.date, fnAppts, 0)))


\* an appointment other than the request's own that is not Cancelled and
\* holds the request's doctor, date and time
HeldBy(a, ap) ==
    /\ a.id # ap.id
    /\ a.doctorId = ap.doctorId
    /\ a.date = ap.date
    /\ a.time = ap.time
    /\ a.status # "Cancelled"

\* the store-side verdict on the request the client-side check was made for
StoreVerdict(ap, appts) ==
    checkAppointmentConflict(Range(appts), ap.doctorId, ap.date, ap.time,
                             IF IsStoredId(ap.id) THEN ap.id ELSE EmptyId)

\* C27: the client-side clash check and the store-side conflict check give
\* the same verdict on every ledger and request: when an appointment whose
\* status is not Cancelled (Scheduled, scheduled, Completed) holds the same
\* doctor, date and time, both reject.
C27_ClientAndStoreAgree ==
    (fnOut.op = "clash" /\ Truthy(fnOut.ap.doctorId) /\ Truthy(fnOut.ap.date)) =>
        /\ fnOut.result = StoreVerdict(fnOut.ap, fnAppts)
        /\ (\E a \in Range(fnAppts) : HeldBy(a, fnOut.ap)) =>
               fnOut.result /\ StoreVerdict(fnOut.ap, fnAppts)


\* the appointment is one of the doctor named docName (record i of the
\* doctors list, 0 when unresolved) or of the doctor id given: its name is
\* the doctor's, or it carries an id and the id is the doctor's
OfDoctor(a, docName, ids) ==
    \/ Truthy(docName) /\ OrElse(a.doctor, a.doctorName) = docName
    \/ Truthy(a.doctorId) /\ a.doctorId \in ids

\* the ids of the doctor record i
IdsOfDoctor(i) == {DoctorField(i, "id"), DoctorField(i, "uid")}

\* the snapshot without the appointments of other doctors
OwnAppointments(appts, docName, ids) ==
    LET Own(a) == OfDoctor(a, docName, ids)
    IN  SelectSeq(appts, Own)

\* C28: an appointment of a different doctor never removes a slot from
\* availableSlots and never makes the clash check true, a missing doctor id
\* (undefined or null) on the appointment, on the request or on the doctor
\* record included: both give what they give on the doctor's own
\* appointments alone.
C28_OtherDoctorsDoNotCount ==
    /\ (fnOut.op = "availableSlots" /\ Truthy(fnOut.dateStr)) =>
           fnOut.result =
               availableSlots(fnOut.docName, fnOut.dateStr,
                              OwnAppointments(fnAppts, fnOut.docName,
                                              IdsOfDoctor(FindDoctorByName(fnOut.docName))),
                              fnOut.tz)
    /\ fnOut.op = "clash" =>
           fnOut.result =
               clash(fnOut.ap, OwnAppointments(fnAppts, fnOut.ap.doctor,
                                               {fnOut.ap.doctorId}))


\* C29: in updateStatus the status write comes before the waitlist offer:
\* the question is asked only in the step that wrote Cancelled to the
\* store, with nothing added to the waitlist yet; one call adds at most one
\* entry, when its question is answered, and ends there; and when the
\* status write fails no question is asked and no entry is created.
C29_WriteBeforeOffer ==
    [][/\ Len(waitlist') <= Len(waitlist) + 1
       /\ \A c \in Clients :
             /\ (pc[c] # "offer" /\ pc'[c] = "offer") =>
                    /\ last'[c].op = "status" /\ last'[c].status = "Cancelled"
                    /\ last'[c].n = ops + 1
                    /\ HasId(store', last'[c].id)
                    /\ DocById(store', last'[c].id).status = "Cancelled"
                    /\ waitlist' = waitlist
             /\ (last'[c].op = "status" /\ last'[c].n = ops + 1
                   /\ ~HasId(store, last'[c].id)) =>
                    /\ last'[c].out = "error"
                    /\ pc'[c] = "idle"
                    /\ store' = store
                    /\ waitlist' = waitlist
             /\ (last'[c] # last[c] /\ last'[c].out = "waitlisted") =>
                    /\ pc[c] = "offer" /\ pc'[c] = "idle"
                    /\ last[c].out = "asking" /\ last'[c].n = last[c].n
                    /\ Len(waitlist') = Len(waitlist) + 1
             /\ (last'[c] # last[c] /\ last'[c].op = "status"
                   /\ last'[c].out # "waitlisted") =>
                    waitlist' = waitlist]_vars

\* a Cancel whose write failed, the appointment being gone from the store:
\* the handler ended with no question and the waitlist is empty
C29_Witness ==
    \E c \in Clients :
        /\ last[c].op = "status" /\ last[c].status = "Cancelled"
        /\ last[c].out = "error"
        /\ pc[c] = "idle"
        /\ waitlist = <<>>

\* C30: the three slot computations agree: for a listed doctor, a non-empty
\* date and a snapshot that does not hold the appointment being edited, the
\* Clerk modal's slots, the Chief modal's availableSlots and the Clerk
\* dashboard's availableSlots return the same list.
C30_ThreeComputationsAgree ==
    LET i == FindDoctorByName(fnOut.form.doctor)
    IN  (/\ fnOut.op = "slots"
         /\ fnOut.form.id = TempId
         /\ Truthy(fnOut.form.date)
         /\ i # 0
         /\ fnOut.form.doctorId = OrElse(Doctors[i].uid, Doctors[i].id)) =>
            /\ fnOut.result = chiefSlots(fnOut.form, fnAppts)
            /\ fnOut.result =
                   availableSlots(fnOut.form.doctor, fnOut.form.date, fnAppts, 0)


============================================================================
